---- MODULE Spec2Model ----
(***************************************************************************)
(* A model of the untis-api-client: the Period / PeriodElement value       *)
(* objects (comparison and merge predicates), the schedule reconstruction  *)
(* engine built on them, and the RPCClient transport with its cookie jar.  *)
(***************************************************************************)
EXTENDS Integers, Sequences, FiniteSets, Bags, TLC

VARIABLES
    a,          \* Period pair: the receiver (`this`), <<>> before construction
    b,          \* Period pair: the argument (`other`), <<>> before construction
    raw,        \* Period pair: the raw record last handed to Period.from
    res,        \* Period pair: the last operation applied to (a, b) and its result
    rawEl,      \* Element: the raw element record last handed to PeriodElement.from
    el,         \* Element: what PeriodElement.from returned for rawEl
    cookies,    \* RPCClient: this.cookies, the entries in insertion order
    inflight,   \* RPCClient: the bag of request() calls suspended at an await
    started,    \* RPCClient: how many request() calls were made
    last,       \* RPCClient: the last event (a request sent, a response, a return, a throw)
    received,   \* history: per cookie name, the value last set on any response received
    accepted,   \* history: per cookie name, the value last set on a response of a call that returned
    lessons,    \* Schedules: the flat list of occurrences handed to fromLessons
    stage,      \* Schedules: how far the pipeline has run
    grouped,    \* Schedules: the collection fromLessons built
    opened,     \* Schedules: the collection the join-the-last-opened rule builds
    combined,   \* Schedules: the collection combineSequentialSchedules made of grouped
    recombined  \* Schedules: the collection combineSequentialSchedules made of combined

periodVars == <<a, b, raw, res>>
elementVars == <<rawEl, el>>
rpcVars == <<cookies, inflight, started, last, received, accepted>>
scheduleVars == <<lessons, stage, grouped, opened, combined, recombined>>
vars == <<a, b, raw, res, rawEl, el, cookies, inflight, started, last, received, accepted,
          lessons, stage, grouped, opened, combined, recombined>>

(***************************************************************************)
(* Bounds of the model.                                                    *)
(***************************************************************************)
\* The longest element list of one bucket of a raw period.
MaxBucketLen == 2
\* The number of request() calls made on the one RPCClient.
MaxRequests == 3
\* The most Set-Cookie headers on one response.
MaxSetCookies == 1
\* The longest list of occurrences handed to fromLessons.
MaxLessons == 4

(***************************************************************************)
(* Generic helpers.                                                        *)
(***************************************************************************)
\* All sequences over S of length at most n.
SeqsUpTo(S, n) == UNION {[1..k -> S] : k \in 0..n}

\* `null`, for the string | null fields.
Null == "<null>"

(***************************************************************************)
(* Dates and times.  A date string `yyyy-mm-dd` is the record of its three *)
(* numbers, a time string `hh:mm` the record of its two: two such strings  *)
(* are equal exactly when the records are.                                 *)
(***************************************************************************)
\* formatUntisDate: the service's 20220420 to `2022-04-20`.
formatUntisDate(n) == [y |-> n \div 10000, m |-> (n \div 100) % 100, d |-> n % 100]

\* formatUntisTime: the service's 1200 to `12:00`.
formatUntisTime(n) == [h |-> n \div 100, m |-> n % 100]

\* Days from 1970-01-01 to the civil date, as `new Date("yyyy-mm-dd")` counts them.
DaysFromCivil(date) ==
    LET y   == IF date.m <= 2 THEN date.y - 1 ELSE date.y
        era == y \div 400
        yoe == y - era * 400
        mp  == (date.m + 9) % 12
        doy == (153 * mp + 2) \div 5 + date.d - 1
        doe == yoe * 365 + yoe \div 4 - yoe \div 100 + doy
    IN  era * 146097 + doe - 719468

\* new Date(date).getDay(): 0 is Sunday; 1970-01-01 was a Thursday.
getDay(date) == (DaysFromCivil(date) + 4) % 7

\* new Date(`${date}T${time}`).valueOf(), counted in minutes: the value is a whole
\* number of minutes, and only differences of two such values are read.
DateTimeValue(date, time) == (DaysFromCivil(date) * 24 + time.h) * 60 + time.m

(***************************************************************************)
(* PeriodElement and SubstitutedPeriodElement.                             *)
(***************************************************************************)
\* A raw field is present when the record has it.
Has(rec, f) == f \in DOMAIN rec

\* JavaScript truthiness of an optional number field: absent and 0 are falsy.
TruthyNumber(rec, f) == Has(rec, f) /\ rec[f] # 0

\* JavaScript truthiness of an optional string field: absent and "" are falsy.
TruthyString(rec, f) == Has(rec, f) /\ rec[f] # ""

\* new PeriodElement(id, name, longName)
NewPeriodElement(id, name, longName) ==
    [class |-> "PeriodElement", id |-> id, name |-> name, longName |-> longName]

\* new SubstitutedPeriodElement(id, name, longName, originalId, originalName)
NewSubstitutedPeriodElement(id, name, longName, originalId, originalName) ==
    [class |-> "SubstitutedPeriodElement", id |-> id, name |-> name,
     longName |-> longName, originalId |-> originalId, originalName |-> originalName]

\* The condition of PeriodElement.from: element.orgid && element.orgname
FromCondition(element) == TruthyNumber(element, "orgid") /\ TruthyString(element, "orgname")

\* PeriodElement.from(element)
PeriodElementFrom(element) ==
    IF FromCondition(element)
    THEN NewSubstitutedPeriodElement(element.id, element.name, element.longname,
                                     element.orgid, element.orgname)
    ELSE NewPeriodElement(element.id, element.name, element.longname)

\* isSubstituted = () => this instanceof SubstitutedPeriodElement
isSubstituted(e) == e.class = "SubstitutedPeriodElement"

(***************************************************************************)
(* Array.prototype.sort with a comparator (stable), and map / join.        *)
(***************************************************************************)
\* The comparator the constructor sorts with: (a, b) => a.id - b.id
CompareByIdDescending(x, y) == y.id - x.id
CompareById(x, y) == x.id - y.id

\* x put into the sorted s after every element that does not compare greater.
RECURSIVE InsertSorted(_, _)
InsertSorted(x, s) ==
    IF s = <<>> THEN <<x>>
    ELSE IF CompareById(Head(s), x) <= 0
         THEN <<Head(s)>> \o InsertSorted(x, Tail(s))
         ELSE <<x>> \o s

\* e.sort((a, b) => a.id - b.id)
RECURSIVE SortById(_)
SortById(s) ==
    IF s = <<>> THEN <<>>
    ELSE InsertSorted(s[Len(s)], SortById(SubSeq(s, 1, Len(s) - 1)))

\* The character of a decimal digit.
DigitChar(d) == <<"0", "1", "2", "3", "4", "5", "6", "7", "8", "9">>[d + 1]

\* The characters of a natural number, as String(n) writes them.
RECURSIVE Digits(_)
Digits(n) == IF n < 10 THEN <<DigitChar(n)>> ELSE Digits(n \div 10) \o <<DigitChar(n % 10)>>

\* The separator Array.prototype.join() puts between the items.
JoinWithoutSeparator == <<>>
JoinSeparator == <<",">>

\* elements.map((e) => e.id).join(): the characters of the joined string.
RECURSIVE JoinIds(_)
JoinIds(elements) ==
    IF elements = <<>> THEN <<>>
    ELSE IF Len(elements) = 1 THEN Digits(elements[1].id)
    ELSE Digits(elements[1].id) \o JoinSeparator \o JoinIds(Tail(elements))

(***************************************************************************)
(* Period.                                                                 *)
(***************************************************************************)
\* new Period(...): the constructor sorts every bucket by id.
NewPeriod(id, lessonType, lessonCode, lessonNumber, lessonText, substitutionText, activityType, studentGroup, elements, date, startTime, endTime) ==
    [id |-> id, lessonType |-> lessonType, lessonCode |-> lessonCode,
     lessonNumber |-> lessonNumber, lessonText |-> lessonText,
     substitutionText |-> substitutionText, activityType |-> activityType,
     studentGroup |-> studentGroup,
     elements |-> [t \in DOMAIN elements |-> SortById(elements[t])],
     date |-> date, startTime |-> startTime, endTime |-> endTime]

\* x || null for a string x
OrNull(x) == IF x = "" THEN Null ELSE x

\* Period.from(period)
PeriodFrom(period) ==
    NewPeriod(
        period.id,
        IF period.lstype = "bs" THEN "breakSupervision"
        ELSE IF period.lstype = "ex" THEN "exam"
        ELSE IF period.lstype = "oh" THEN "officeHour"
        ELSE IF period.lstype = "sb" THEN "standby"
        ELSE "lesson",
        IF period.code = "cancelled" THEN "cancelled"
        ELSE IF period.code = "irregular" THEN "irregular"
        ELSE "regular",
        period.lsnumber,
        period.lstext,
        OrNull(period.substText),
        period.activityType,
        OrNull(period.sg),
        [classes  |-> [i \in DOMAIN period.kl |-> PeriodElementFrom(period.kl[i])],
         rooms    |-> [i \in DOMAIN period.ro |-> PeriodElementFrom(period.ro[i])],
         subjects |-> [i \in DOMAIN period.su |-> PeriodElementFrom(period.su[i])],
         teachers |-> [i \in DOMAIN period.te |-> PeriodElementFrom(period.te[i])]],
        formatUntisDate(period.date),
        formatUntisTime(period.startTime),
        formatUntisTime(period.endTime))

getDateAsString(p) == p.date
getStartTimeAsString(p) == p.startTime
getEndTimeAsString(p) == p.endTime

\* getStartDateTimeAsObject().valueOf()
StartDateTimeValue(p) == DateTimeValue(p.date, p.startTime)

\* hasTheSameElementsAs: per bucket, the joined id strings are the same string.
hasTheSameElementsAs(this, other) ==
    \A t \in DOMAIN this.elements :
        JoinIds(this.elements[t]) = JoinIds(other.elements[t])

\* deviatesFromSchedule
deviatesFromSchedule(this) ==
    \/ this.substitutionText # Null
    \/ this.lessonCode # "regular"
    \/ \E t \in DOMAIN this.elements :
          \E i \in DOMAIN this.elements[t] : isSubstituted(this.elements[t][i])

\* this.getDateAsObject().getDay() === other.getDateAsObject().getDay()
OnSameDate(this, other) == getDateAsString(this) = getDateAsString(other)
OnSameWeekday(this, other) == getDay(this.date) = getDay(other.date)

\* belongsToSameScheduleAs
belongsToSameLessonAs(this, other) ==
    /\ this.lessonNumber = other.lessonNumber
    /\ OnSameWeekday(this, other)
belongsToSameScheduleAs(this, other) ==
    /\ this.lessonNumber = other.lessonNumber
    /\ OnSameWeekday(this, other)
    /\ getStartTimeAsString(this) = getStartTimeAsString(other)
    /\ getEndTimeAsString(this) = getEndTimeAsString(other)

\* The adjacency test of canBeCombinedWith: one starts when the other ends.
StartsWhenOtherEndsOneWay(this, other) ==
    getStartTimeAsString(this) = getEndTimeAsString(other)
StartsWhenOtherEnds(this, other) ==
    \/ getStartTimeAsString(this) = getEndTimeAsString(other)
    \/ getStartTimeAsString(other) = getEndTimeAsString(this)

\* canBeCombinedWith
canBeCombinedWith(this, other) ==
    /\ this.lessonNumber = other.lessonNumber
    /\ getDateAsString(this) = getDateAsString(other)
    /\ StartsWhenOtherEnds(this, other)
    /\ this.lessonCode = other.lessonCode
    /\ hasTheSameElementsAs(this, other)

\* [this, other].sort(by start instant): stable, so `this` stays first on a tie.
EarlierOf(this, other) ==
    IF StartDateTimeValue(this) - StartDateTimeValue(other) <= 0 THEN this ELSE other
LaterOfIsThis(this, other) == this
LaterOf(this, other) ==
    IF StartDateTimeValue(this) - StartDateTimeValue(other) <= 0 THEN other ELSE this

\* The period whose fields other than the two times combineWith copies.
CombineBaseEarlier(this, other) == EarlierOf(this, other)
CombineBase(this, other) == this

\* combineWith
combineWith(this, other) ==
    LET base == CombineBase(this, other) IN
    NewPeriod(base.id, base.lessonType, base.lessonCode, base.lessonNumber,
              base.lessonText, base.substitutionText, base.activityType,
              base.studentGroup, base.elements, getDateAsString(base),
              getStartTimeAsString(EarlierOf(this, other)),
              getEndTimeAsString(LaterOf(this, other)))

(***************************************************************************)
(* RPCClient: request() and the cookie jar.                                *)
(***************************************************************************)
\* What getSetCookies(response.headers) can yield: name and value of each Set-Cookie.
SetCookies == {[name |-> "s", value |-> "1"], [name |-> "s", value |-> "2"],
               [name |-> "t", value |-> "1"]}
SetCookieLists == SeqsUpTo(SetCookies, MaxSetCookies)

\* What awaiting response.json() can give: a result, an RPC error object, or a
\* rejection because the body is no JSON.
Bodies == {"result", "error", "invalid"}

\* The index of the entry for name in the jar, 0 when there is none.
IndexOf(jar, name) ==
    IF \E i \in DOMAIN jar : jar[i].name = name
    THEN CHOOSE i \in DOMAIN jar : jar[i].name = name
    ELSE 0

\* this.cookies[name] = value: an own property keeps its place, a new one goes last.
SetCookieFirstWins(jar, name, value) ==
    IF IndexOf(jar, name) # 0 THEN jar
    ELSE Append(jar, [name |-> name, value |-> value])
SetCookie(jar, name, value) ==
    IF IndexOf(jar, name) # 0
    THEN [jar EXCEPT ![IndexOf(jar, name)].value = value]
    ELSE Append(jar, [name |-> name, value |-> value])

\* for (let { name, value } of getSetCookies(response.headers)) this.cookies[name] = value
RECURSIVE StoreCookies(_, _)
StoreCookies(jar, setCookies) ==
    IF setCookies = <<>> THEN jar
    ELSE StoreCookies(SetCookie(jar, Head(setCookies).name, Head(setCookies).value),
                      Tail(setCookies))

\* Object.entries(this.cookies).map(([key, value]) => `${key}=${value}`).join(";"):
\* the header, as the list of its `key=value` items.
CookieHeader(jar) == [i \in DOMAIN jar |-> <<jar[i].name, "=", jar[i].value>>]

\* History: the values last set by a list of Set-Cookie headers, over what was known.
LastSet(known, setCookies) ==
    LET names == {setCookies[i].name : i \in DOMAIN setCookies}
        lastIndex(n) == CHOOSE i \in DOMAIN setCookies :
                            /\ setCookies[i].name = n
                            /\ \A j \in DOMAIN setCookies : setCookies[j].name = n => j <= i
    IN  [n \in DOMAIN known \cup names |->
            IF n \in names THEN setCookies[lastIndex(n)].value ELSE known[n]]

Fetching == [stage |-> "fetching"]
\* A call awaiting response.json() holds the response: its body, and its Set-Cookie
\* headers, which are read only when the body holds a result.
Parsing(body, setCookies) ==
    [stage |-> "parsing", body |-> body,
     setCookies |-> IF body = "result" THEN setCookies ELSE <<>>]

\* No request() call was made yet.
NoEvent == [kind |-> "none"]

\* request(): up to the await of fetch. The Cookie header is read from the jar and
\* the request is sent in one synchronous run.
Request ==
    /\ started < MaxRequests
    /\ started' = started + 1
    /\ inflight' = inflight (+) SetToBag({Fetching})
    /\ last' = [kind |-> "send", cookie |-> CookieHeader(cookies)]
    /\ UNCHANGED <<cookies, received, accepted, periodVars, elementVars, scheduleVars>>

\* fetch rejects: no response; request() throws.
FetchRejects ==
    /\ BagIn(Fetching, inflight)
    /\ inflight' = inflight (-) SetToBag({Fetching})
    /\ last' = [kind |-> "throw", error |-> "TypeError"]
    /\ UNCHANGED <<cookies, started, received, accepted, periodVars, elementVars, scheduleVars>>

\* fetch resolves with a status other than 200: request() throws HTTPStatusError.
RespondNot200 ==
    /\ BagIn(Fetching, inflight)
    /\ \E setCookies \in SetCookieLists :
          received' = LastSet(received, setCookies)
    /\ inflight' = inflight (-) SetToBag({Fetching})
    /\ last' = [kind |-> "throw", error |-> "HTTPStatusError"]
    /\ UNCHANGED <<cookies, started, accepted, periodVars, elementVars, scheduleVars>>

\* fetch resolves with status 200: request() goes on to await response.json().
Respond200 ==
    /\ BagIn(Fetching, inflight)
    /\ \E setCookies \in SetCookieLists, body \in Bodies :
          /\ received' = LastSet(received, setCookies)
          /\ inflight' = (inflight (-) SetToBag({Fetching}))
                            (+) SetToBag({Parsing(body, setCookies)})
          /\ last' = [kind |-> "response", status |-> 200]
    /\ UNCHANGED <<cookies, started, accepted, periodVars, elementVars, scheduleVars>>

\* response.json() rejects, or the body holds an error: request() throws.
BodyThrows ==
    /\ \E call \in BagToSet(inflight) :
          /\ call.stage = "parsing"
          /\ call.body # "result"
          /\ inflight' = inflight (-) SetToBag({call})
          /\ last' = [kind |-> "throw",
                      error |-> IF call.body = "error" THEN "RPCError" ELSE "SyntaxError"]
    /\ UNCHANGED <<cookies, started, received, accepted, periodVars, elementVars, scheduleVars>>

\* The body holds a result: the cookies the response set are stored, request() returns.
Return ==
    /\ \E call \in BagToSet(inflight) :
          /\ call.stage = "parsing"
          /\ call.body = "result"
          /\ cookies' = StoreCookies(cookies, call.setCookies)
          /\ accepted' = LastSet(accepted, call.setCookies)
          /\ inflight' = inflight (-) SetToBag({call})
          /\ last' = [kind |-> "return", setCookies |-> call.setCookies]
    /\ UNCHANGED <<started, received, periodVars, elementVars, scheduleVars>>

(***************************************************************************)
(* Schedule and ScheduleCollection: the reconstruction engine.             *)
(***************************************************************************)
\* An occurrence matches the reference of its schedule: same slot, same elements,
\* same code, and no deviation of its own.  (The slot is compared because a regular
\* occurrence that was not combined, with the elements of the combined reference,
\* counts as changed in the partially combinable tests.)
MatchesReference(o, reference) ==
    /\ belongsToSameScheduleAs(o, reference)
    /\ hasTheSameElementsAs(o, reference)
    /\ o.lessonCode = reference.lessonCode
    /\ ~deviatesFromSchedule(o)

\* A Schedule: its occurrences in order, classified against the reference.
NewSchedule(occurrences, reference) ==
    LET Unchanged(o) == MatchesReference(o, reference)
        Changed(o) == ~MatchesReference(o, reference)
    IN  [occurrences |-> occurrences,
         lessons |-> [unchanged |-> SelectSeq(occurrences, Unchanged),
                      changed |-> SelectSeq(occurrences, Changed)]]

\* The index of the group whose first member the occurrence belongs with, 0 when
\* there is none.  (The partially combinable tests hand fromLessons two slots over
\* two weeks, slot by slot within each week, and expect the two schedules that only
\* this gives: joining the schedule opened last alone would give four.)
GroupIndex(groups, o) ==
    IF \E i \in DOMAIN groups : belongsToSameScheduleAs(o, groups[i][1])
    THEN CHOOSE i \in DOMAIN groups :
            /\ belongsToSameScheduleAs(o, groups[i][1])
            /\ \A j \in DOMAIN groups : belongsToSameScheduleAs(o, groups[j][1]) => i <= j
    ELSE 0

\* Step A, the grouping: the input taken in order, each occurrence joining its
\* group or opening a new one.
RECURSIVE GroupLessons(_, _)
GroupLessons(groups, input) ==
    IF input = <<>> THEN groups
    ELSE LET o == Head(input)
             i == GroupIndex(groups, o)
         IN  IF i # 0
             THEN GroupLessons([groups EXCEPT ![i] = Append(@, o)], Tail(input))
             ELSE GroupLessons(Append(groups, <<o>>), Tail(input))

\* ScheduleCollection.fromLessons(lessons): the schedules, in the order they opened;
\* the reference of a group is its first occurrence.
fromLessons(input) ==
    LET groups == GroupLessons(<<>>, input)
    IN  [i \in DOMAIN groups |-> NewSchedule(groups[i], groups[i][1])]

\* Step A as it is worded: the input taken in order, each occurrence joining the
\* schedule opened last if it belongs to the same schedule as that schedule's first
\* member, and opening a new schedule otherwise.
RECURSIVE OpenLessons(_, _)
OpenLessons(groups, input) ==
    IF input = <<>> THEN groups
    ELSE LET o == Head(input)
         IN  IF groups # <<>> /\ belongsToSameScheduleAs(o, groups[Len(groups)][1])
             THEN OpenLessons([groups EXCEPT ![Len(groups)] = Append(@, o)], Tail(input))
             ELSE OpenLessons(Append(groups, <<o>>), Tail(input))

\* The collection the join-the-last-opened rule builds of a list.
fromLessonsLastOpened(input) ==
    LET groups == OpenLessons(<<>>, input)
    IN  [i \in DOMAIN groups |-> NewSchedule(groups[i], groups[i][1])]

\* The index of the occurrence of `others` on the date of o, 0 when there is none.
PartnerIndex(o, others) ==
    IF \E i \in DOMAIN others : others[i].date = o.date
    THEN CHOOSE i \in DOMAIN others :
            /\ others[i].date = o.date
            /\ \A j \in DOMAIN others : others[j].date = o.date => i <= j
    ELSE 0

\* Two schedules merge when at least one date pairing can be combined.
CanCombineSchedules(first, second) ==
    \E i \in DOMAIN first.occurrences :
        LET j == PartnerIndex(first.occurrences[i], second.occurrences)
        IN  j # 0 /\ canBeCombinedWith(first.occurrences[i], second.occurrences[j])

\* The occurrences of the merged schedule, each marked as combined or not: a pairing
\* that can be combined gives one occurrence, one that cannot keeps both, and an
\* occurrence without a partner is kept.
RECURSIVE MergePairs(_, _)
MergePairs(mine, others) ==
    IF mine = <<>> THEN <<>>
    ELSE LET o == Head(mine)
             j == PartnerIndex(o, others)
         IN  (IF j = 0 THEN <<[combined |-> FALSE, occurrence |-> o]>>
              ELSE IF canBeCombinedWith(o, others[j])
                   THEN <<[combined |-> TRUE, occurrence |-> combineWith(o, others[j])]>>
                   ELSE <<[combined |-> FALSE, occurrence |-> o],
                          [combined |-> FALSE, occurrence |-> others[j]]>>)
             \o MergePairs(Tail(mine), others)

\* The occurrences of the second schedule on dates the first schedule lacks.
Unpaired(mine, others) ==
    LET NoPartner(o) == \A i \in DOMAIN mine : mine[i].date # o.date
    IN  SelectSeq(others, NoPartner)

\* The schedule that replaces two schedules that merge: classified anew against the
\* first combined occurrence.
CombineSchedules(first, second) ==
    LET pairs == MergePairs(first.occurrences, second.occurrences)
        rest  == Unpaired(first.occurrences, second.occurrences)
        IsCombined(m) == m.combined
        reference == SelectSeq(pairs, IsCombined)[1].occurrence
    IN  NewSchedule([i \in DOMAIN pairs |-> pairs[i].occurrence] \o rest, reference)

\* The scan over adjacent schedules: each schedule merges into the one before it in
\* the result when the two can be combined, and follows it otherwise.
RECURSIVE ScanSchedules(_, _)
ScanSchedules(done, todo) ==
    IF todo = <<>> THEN done
    ELSE IF done # <<>> /\ CanCombineSchedules(done[Len(done)], Head(todo))
         THEN ScanSchedules(
                [done EXCEPT ![Len(done)] = CombineSchedules(@, Head(todo))], Tail(todo))
         ELSE ScanSchedules(Append(done, Head(todo)), Tail(todo))

\* combineSequentialSchedules(): a new collection.
combineSequentialSchedules(schedules) == ScanSchedules(<<>>, schedules)

(***************************************************************************)
(* The inputs of the engine: chronological lists of occurrences.           *)
(***************************************************************************)
\* Two Wednesdays a week apart.
LessonDates == {20220420, 20220427}

\* Three back-to-back slots.
LessonSlots == {<<1200, 1300>>, <<1300, 1400>>, <<1400, 1500>>}

\* What else differs from one occurrence to the next.
LessonVariants ==
    {[lsnumber |-> 1, code |-> "", substText |-> "", te |-> <<>>],
     [lsnumber |-> 1, code |-> "cancelled", substText |-> "", te |-> <<>>],
     [lsnumber |-> 1, code |-> "", substText |-> "",
      te |-> <<[id |-> 1, name |-> "n", longname |-> "N"]>>],
     [lsnumber |-> 2, code |-> "", substText |-> "", te |-> <<>>]}

\* The raw period of the id-th occurrence of the list.
RawLesson(id, variant, date, slot) ==
    [id |-> id, lstype |-> "ls", code |-> variant.code, lsnumber |-> variant.lsnumber,
     lstext |-> "", substText |-> variant.substText, activityType |-> "Unterricht",
     sg |-> "", kl |-> <<>>, te |-> variant.te, su |-> <<>>, ro |-> <<>>,
     date |-> date, startTime |-> slot[1], endTime |-> slot[2]]

\* The transport returns the occurrences in chronological order.
NotBefore(o, previous) == StartDateTimeValue(previous) <= StartDateTimeValue(o)

\* A lesson number has one occurrence at a time: no occurrence of the list is of the
\* lesson number of o and starts when o starts.
NotYetListed(o, list) ==
    \A i \in DOMAIN list :
        ~(list[i].lessonNumber = o.lessonNumber
            /\ StartDateTimeValue(list[i]) = StartDateTimeValue(o))

\* One more occurrence arrives from the transport.
AddLesson ==
    /\ stage = "input"
    /\ Len(lessons) < MaxLessons
    /\ \E v \in LessonVariants, d \in LessonDates, s \in LessonSlots :
          LET o == PeriodFrom(RawLesson(Len(lessons) + 1, v, d, s)) IN
          /\ lessons # <<>> => NotBefore(o, lessons[Len(lessons)])
          /\ NotYetListed(o, lessons)
          /\ lessons' = Append(lessons, o)
    /\ UNCHANGED <<stage, grouped, opened, combined, recombined, periodVars, elementVars, rpcVars>>

\* grouped = ScheduleCollection.fromLessons(lessons)
FromLessons ==
    /\ stage = "input"
    /\ lessons # <<>>
    /\ grouped' = fromLessons(lessons)
    /\ opened' = fromLessonsLastOpened(lessons)
    /\ stage' = "grouped"
    /\ UNCHANGED <<lessons, combined, recombined, periodVars, elementVars, rpcVars>>

\* combined = grouped.combineSequentialSchedules()
CombineSequentialSchedules ==
    /\ stage = "grouped"
    /\ combined' = combineSequentialSchedules(grouped)
    /\ stage' = "combined"
    /\ UNCHANGED <<lessons, grouped, opened, recombined, periodVars, elementVars, rpcVars>>

\* recombined = combined.combineSequentialSchedules()
CombineAgain ==
    /\ stage = "combined"
    /\ recombined' = combineSequentialSchedules(combined)
    /\ stage' = "recombined"
    /\ UNCHANGED <<lessons, grouped, opened, combined, periodVars, elementVars, rpcVars>>

(***************************************************************************)
(* The inputs of the Period pair: raw periods as the service returns them. *)
(***************************************************************************)
\* Ids of raw elements: 1 and 11 join to the digits of 11 without a separator.
ElementIds == {1, 11}

RawElements == {[id |-> i, name |-> "n", longname |-> "N"] : i \in ElementIds}

\* Raw element lists in any order, sorted or not.
RawElementLists == SeqsUpTo(RawElements, MaxBucketLen)

\* The four raw buckets: one list, among the teachers or among the rooms.
RawBuckets ==
    {[kl |-> <<>>, su |-> <<>>, te |-> l, ro |-> <<>>] : l \in RawElementLists}
    \cup {[kl |-> <<>>, su |-> <<>>, te |-> <<>>, ro |-> l] : l \in RawElementLists}

\* The time slots of a day, each with the fields no predicate reads: every raw
\* period of a day has its own id and texts.
RawSlots ==
    {[startTime |-> 1200, endTime |-> 1300, id |-> 1, lstype |-> "ls", lstext |-> "",
      substText |-> "", activityType |-> "Unterricht", sg |-> ""],
     [startTime |-> 1300, endTime |-> 1400, id |-> 2, lstype |-> "ex", lstext |-> "text",
      substText |-> "subst", activityType |-> "Bereitschaft", sg |-> "group"],
     [startTime |-> 1400, endTime |-> 1500, id |-> 3, lstype |-> "oh", lstext |-> "",
      substText |-> "", activityType |-> "Unterricht", sg |-> "group"]}

RawDates == {20220420, 20220421}
RawCodes == {"", "cancelled"}
LessonNumbers == {1, 2}

RawPeriod(slot, code, lsnumber, buckets, date) ==
    [id |-> slot.id, lstype |-> slot.lstype, code |-> code,
     lsnumber |-> lsnumber, lstext |-> slot.lstext,
     substText |-> slot.substText, activityType |-> slot.activityType,
     sg |-> slot.sg, kl |-> buckets.kl, te |-> buckets.te, su |-> buckets.su,
     ro |-> buckets.ro, date |-> date, startTime |-> slot.startTime,
     endTime |-> slot.endTime]

RawPeriods ==
    {RawPeriod(s, c, n, k, dt) :
        s \in RawSlots, c \in RawCodes, n \in LessonNumbers,
        k \in RawBuckets, dt \in RawDates}

(***************************************************************************)
(* The Period pair: two periods built from raw records, and the pairwise   *)
(* operations applied to them.                                             *)
(***************************************************************************)
NoResult == [op |-> "none"]

\* No period and no element built, new RPCClient(url) with an empty cookie jar, no
\* occurrence listed.
Init ==
    /\ a = <<>> /\ b = <<>> /\ raw = <<>> /\ res = NoResult
    /\ rawEl = <<>> /\ el = <<>>
    /\ cookies = <<>>
    /\ inflight = EmptyBag
    /\ started = 0
    /\ last = NoEvent
    /\ received = <<>>
    /\ accepted = <<>>
    /\ lessons = <<>>
    /\ stage = "input"
    /\ grouped = <<>>
    /\ opened = <<>>
    /\ combined = <<>>
    /\ recombined = <<>>

\* this = Period.from(raw)
FromThis ==
    /\ a = <<>>
    /\ \E period \in RawPeriods : raw' = <<period>> /\ a' = <<PeriodFrom(period)>>
    /\ UNCHANGED <<b, res, elementVars, rpcVars, scheduleVars>>

\* other = Period.from(raw)
FromOther ==
    /\ a # <<>> /\ b = <<>>
    /\ \E period \in RawPeriods : raw' = <<period>> /\ b' = <<PeriodFrom(period)>>
    /\ UNCHANGED <<a, res, elementVars, rpcVars, scheduleVars>>

\* this.canBeCombinedWith(other)
CanBeCombinedWith ==
    /\ a # <<>> /\ b # <<>> /\ res = NoResult
    /\ res' = [op |-> "canBeCombinedWith", result |-> canBeCombinedWith(a[1], b[1])]
    /\ UNCHANGED <<a, b, raw, elementVars, rpcVars, scheduleVars>>

\* this.combineWith(other)
CombineWith ==
    /\ a # <<>> /\ b # <<>> /\ res = NoResult
    /\ res' = [op |-> "combineWith", result |-> combineWith(a[1], b[1])]
    /\ UNCHANGED <<a, b, raw, elementVars, rpcVars, scheduleVars>>

Next == FromThis \/ FromOther \/ CanBeCombinedWith \/ CombineWith

Spec == Init /\ [][Next]_vars

(***************************************************************************)
(* PeriodElement.from on its own: every shape of raw element record.       *)
(***************************************************************************)
\* The fields every raw element has.
RawElementBases ==
    {[id |-> i, name |-> n, longname |-> l] :
        i \in {0, 1, 11}, n \in {"n", "m"}, l \in {"N", "M"}}

\* The original id of a raw element, when the record has one.
OriginalIds == {0, 5}
\* The original name of a raw element, when the record has one.
OriginalNames == {"", "o"}

\* A record with one more field.
With(rec, f, v) == [x \in DOMAIN rec \cup {f} |-> IF x = f THEN v ELSE rec[x]]

RawElementRecords ==
    RawElementBases
    \cup {With(e, "orgid", i) : e \in RawElementBases, i \in OriginalIds}
    \cup {With(e, "orgname", n) : e \in RawElementBases, n \in OriginalNames}
    \cup {With(With(e, "orgid", i), "orgname", n) :
            e \in RawElementBases, i \in OriginalIds, n \in OriginalNames}

\* el = PeriodElement.from(element)
ElementFrom ==
    /\ \E element \in RawElementRecords :
          rawEl' = <<element>> /\ el' = <<PeriodElementFrom(element)>>
    /\ UNCHANGED <<periodVars, rpcVars, scheduleVars>>

NextElement == ElementFrom

SpecElement == Init /\ [][NextElement]_vars

NextRPC == Request \/ FetchRejects \/ RespondNot200 \/ Respond200 \/ BodyThrows \/ Return

SpecRPC == Init /\ [][NextRPC]_vars

NextSchedules == AddLesson \/ FromLessons \/ CombineSequentialSchedules \/ CombineAgain

SpecSchedules == Init /\ [][NextSchedules]_vars

(***************************************************************************)
(* Properties of the Period pair.                                          *)
(***************************************************************************)
\* The ids of a bucket, in order.
IdsOf(bucket) == [i \in DOMAIN bucket |-> bucket[i].id]

\* For every bucket the two periods list the same ids in the same order.
SameIdSequences(p, q) ==
    \A t \in {"classes", "teachers", "subjects", "rooms"} :
        IdsOf(p.elements[t]) = IdsOf(q.elements[t])

\* One period starts at the time of day at which the other ends.
Adjacent(p, q) == p.startTime = q.endTime \/ q.startTime = p.endTime

\* The conditions under which two periods can be combined.
Combinable(p, q) ==
    /\ p.lessonNumber = q.lessonNumber
    /\ p.date = q.date
    /\ Adjacent(p, q)
    /\ p.lessonCode = q.lessonCode
    /\ SameIdSequences(p, q)

\* C5: a.canBeCombinedWith(b) is true exactly when the lesson numbers are equal, the
\* dates are equal, one starts when the other ends, the lesson codes are equal and
\* every bucket lists the same ids in the same order; and b.canBeCombinedWith(a)
\* gives the same answer.
C5_CanBeCombinedIffAndSymmetric ==
    res.op = "canBeCombinedWith" =>
        /\ res.result = Combinable(a[1], b[1])
        /\ res.result = canBeCombinedWith(b[1], a[1])

\* C5 witness: the check answered true for a receiver that ends when the other starts.
C5_Witness ==
    /\ res.op = "canBeCombinedWith"
    /\ res.result = TRUE
    /\ a[1].endTime = b[1].startTime

\* The time of day t comes before the time of day u.
TimeBefore(t, u) == t.h < u.h \/ (t.h = u.h /\ t.m < u.m)

\* C6 as claimed: the combination of two combinable periods is the earlier of the
\* two with the end time of the later, whichever of them is the receiver.
C6_CombinedIsEarlierWithLaterEnd ==
    (res.op = "combineWith" /\ canBeCombinedWith(a[1], b[1])) =>
        LET earlier == IF TimeBefore(b[1].startTime, a[1].startTime) THEN b[1] ELSE a[1]
            later   == IF TimeBefore(b[1].startTime, a[1].startTime) THEN a[1] ELSE b[1]
        IN  res.result = [earlier EXCEPT !.endTime = later.endTime]

\* C6 as amended: the combination of two combinable periods is the receiver with the
\* start time of the earlier of the two and the end time of the later; so it is the
\* earlier with the later's end time when the receiver is the earlier.
C6_CombinedIsReceiverWithSpan ==
    (res.op = "combineWith" /\ canBeCombinedWith(a[1], b[1])) =>
        LET earlier == IF TimeBefore(b[1].startTime, a[1].startTime) THEN b[1] ELSE a[1]
            later   == IF TimeBefore(b[1].startTime, a[1].startTime) THEN a[1] ELSE b[1]
        IN  /\ res.result = [a[1] EXCEPT !.startTime = earlier.startTime,
                                         !.endTime = later.endTime]
            /\ earlier = a[1] => res.result = [earlier EXCEPT !.endTime = later.endTime]

\* C6 witness: a later receiver was combined with an earlier period of another id.
C6_Witness ==
    /\ res.op = "combineWith"
    /\ canBeCombinedWith(a[1], b[1])
    /\ TimeBefore(b[1].startTime, a[1].startTime)
    /\ a[1].id # b[1].id
    /\ res.result.id = a[1].id

\* The ids of a bucket never decrease along it.
SortedAscending(bucket) ==
    \A i, j \in DOMAIN bucket : i < j => bucket[i].id <= bucket[j].id

AllBucketsSorted(p) ==
    \A t \in {"classes", "teachers", "subjects", "rooms"} : SortedAscending(p.elements[t])

\* C7: every period, built from a raw record or by combineWith, has each of its four
\* buckets sorted ascending by element id.
C7_BucketsSorted ==
    /\ a # <<>> => AllBucketsSorted(a[1])
    /\ b # <<>> => AllBucketsSorted(b[1])
    /\ res.op = "combineWith" => AllBucketsSorted(res.result)

\* C7 witness: a period built from a raw record whose teachers came in descending
\* order, and then combined.
C7_Witness ==
    /\ b # <<>>
    /\ Len(raw[1].te) = 2
    /\ raw[1].te[1].id > raw[1].te[2].id
    /\ res.op = "combineWith"
    /\ Len(res.result.elements.teachers) = 2

(***************************************************************************)
(* Properties of the reconstruction engine.                                *)
(***************************************************************************)
\* The schedule slot key of an occurrence.
SlotKey(o) == <<o.lessonNumber, getDay(o.date), o.startTime, o.endTime>>

\* The items of a sequence, as a set.
Range(s) == {s[i] : i \in DOMAIN s}

\* The ids of the occurrences of a sequence, in order.
OccurrenceIds(s) == [i \in DOMAIN s |-> s[i].id]

\* C1: a non-empty list of occurrences that share lesson number, weekday, start time
\* and end time gives exactly one Schedule, which holds every occurrence of the list
\* once, in the order of the list.
C1_OneScheduleForOneSlot ==
    (stage # "input" /\ \A i \in DOMAIN lessons : SlotKey(lessons[i]) = SlotKey(lessons[1])) =>
        /\ Len(grouped) = 1
        /\ grouped[1].occurrences = lessons
        /\ Len(grouped[1].lessons.unchanged) + Len(grouped[1].lessons.changed)
              = Len(lessons)

\* C1 witness: occurrences of one slot on different dates were grouped.
C1_Witness ==
    /\ stage = "grouped"
    /\ Len(lessons) = 2
    /\ \A i \in DOMAIN lessons : SlotKey(lessons[i]) = SlotKey(lessons[1])
    /\ lessons[1].date # lessons[2].date
    /\ Len(grouped) = 1

\* fromLessons gave two schedules with occurrences on the same dates, one per date.
TwoWeeklySchedules ==
    /\ stage \in {"combined", "recombined"}
    /\ Len(grouped) = 2
    /\ \A k \in 1..2 : \A i, j \in DOMAIN grouped[k].occurrences :
          i # j => grouped[k].occurrences[i].date # grouped[k].occurrences[j].date
    /\ {o.date : o \in Range(grouped[1].occurrences)}
          = {o.date : o \in Range(grouped[2].occurrences)}

\* The date pairings of the two schedules.
DatePairings ==
    {<<x, y>> \in Range(grouped[1].occurrences) \X Range(grouped[2].occurrences) :
        x.date = y.date}

FailingPairings == {pq \in DatePairings : ~Combinable(pq[1], pq[2])}

\* C2 as claimed: two weekly schedules whose date pairings can all be combined give
\* one Schedule, in which only occurrences that deviate from the schedule are changed.
C2_OnlyDeviatingChanged ==
    (TwoWeeklySchedules /\ FailingPairings = {}) =>
        /\ Len(combined) = 1
        /\ \A o \in Range(combined[1].lessons.changed) : deviatesFromSchedule(o)

\* C2 as amended: two weekly schedules whose date pairings can all be combined give
\* one Schedule of one combination per date, in which a combination is changed only
\* if its occurrence of the first schedule was changed there already (it deviates, or
\* differs from the reference of that schedule in code or elements).
C2_OnlyChangedBeforeChanged ==
    (TwoWeeklySchedules /\ FailingPairings = {}) =>
        /\ Len(combined) = 1
        /\ OccurrenceIds(combined[1].occurrences) = OccurrenceIds(grouped[1].occurrences)
        /\ \A o \in Range(combined[1].lessons.changed) :
              \E x \in Range(grouped[1].lessons.changed) : x.id = o.id

\* C2 witness: two schedules over two weeks were combined and one combination, which
\* does not deviate, is changed.
C2_Witness ==
    /\ TwoWeeklySchedules /\ FailingPairings = {}
    /\ Len(combined) = 1
    /\ Len(combined[1].occurrences) = 2
    /\ \E o \in Range(combined[1].lessons.changed) : ~deviatesFromSchedule(o)

C4_CombineIsIdempotent ==
    stage = "recombined" => recombined = combined

\* The slot keys of a list, in the order in which they are first seen.
RECURSIVE KeysFirstSeen(_)
KeysFirstSeen(list) ==
    IF list = <<>> THEN <<>>
    ELSE LET before == KeysFirstSeen(SubSeq(list, 1, Len(list) - 1))
             key == SlotKey(list[Len(list)])
         IN  IF key \in Range(before) THEN before ELSE Append(before, key)

\* The stable partition of a list by slot key: the keys in first-seen order, the
\* occurrences of a key in the order of the list.
StablePartition(list) ==
    LET keys == KeysFirstSeen(list)
    IN  [i \in DOMAIN keys |->
            LET OfKey(o) == SlotKey(o) = keys[i] IN SelectSeq(list, OfKey)]

\* The occurrence lists of the schedules of a collection.
OccurrenceLists(schedules) == [i \in DOMAIN schedules |-> schedules[i].occurrences]

\* No two schedules of a collection have first members of the same slot key.
NoSharedSlotKey(schedules) ==
    \A i, j \in DOMAIN schedules :
        i # j => SlotKey(schedules[i].occurrences[1]) # SlotKey(schedules[j].occurrences[1])

\* The occurrences of every slot key stand together in the list.
Contiguous(list) ==
    \A i, j, k \in DOMAIN list :
        (i < j /\ j < k /\ SlotKey(list[i]) = SlotKey(list[k]))
            => SlotKey(list[j]) = SlotKey(list[i])

Sends(header, name, value) == \E i \in DOMAIN header : header[i] = <<name, "=", value>>

\* The Cookie header carries one item for name.
SendsOnce(header, name) == Cardinality({i \in DOMAIN header : header[i][1] = name}) = 1

\* C9 as claimed: a request carries every cookie that any response received before it
\* set, whatever the response's status or body, with the value set last.
C9_SendsCookiesOfEveryResponse ==
    last.kind = "send" =>
        \A n \in DOMAIN received : Sends(last.cookie, n, received[n])

\* C9 as amended: a request carries every cookie set by the responses of the calls
\* that returned before it (status 200 and a body without error), once per name, with
\* the value that the call that returned last set last; and nothing else.
C9_SendsCookiesOfReturnedCalls ==
    last.kind = "send" =>
        /\ \A n \in DOMAIN accepted :
              Sends(last.cookie, n, accepted[n]) /\ SendsOnce(last.cookie, n)
        /\ \A i \in DOMAIN last.cookie : last.cookie[i][1] \in DOMAIN accepted

\* C9 witness: a request sent after a call returned with s=2, while a response that
\* set s=1 was received later and not stored.
C9_Witness ==
    /\ last.kind = "send"
    /\ "s" \in DOMAIN accepted /\ accepted["s"] = "2"
    /\ "s" \in DOMAIN received /\ received["s"] = "1"
    /\ Sends(last.cookie, "s", "2")

\* C10: a call that writes the cookie jar does so while no other call is between its
\* own read of the jar and its own write.
C10_NoWriteInsideAnotherCallsSection ==
    (last.kind = "return" /\ last.setCookies # <<>>) => inflight = EmptyBag

(***************************************************************************)
(* Properties of PeriodElement.from.                                       *)
(***************************************************************************)
\* C8: PeriodElement.from returns the substituted variant exactly when the raw record
\* has both an original id and an original name, whatever their values.
C8_SubstitutedIffBothPresent ==
    el # <<>> =>
        (isSubstituted(el[1]) <=> (Has(rawEl[1], "orgid") /\ Has(rawEl[1], "orgname")))

====
